---------------------------- MODULE Spec2Model ----------------------------
(***************************************************************************)
(* The asmbunny register machine of aoc2016 (src/asmbunny.rs), its day12   *)
(* predecessor without toggle (src/bin/day12.rs) and the day23 driver      *)
(* (src/bin/day23.rs); and the moves of the day22 grid                    *)
(* (src/bin/day22.rs).                                                     *)
(*                                                                         *)
(* A line of text is modelled after split_whitespace: a sequence of        *)
(* tokens, each token a sequence of one-character strings.  Register ids   *)
(* are tokens.  i64 is scaled to IntBits bits (two's complement), so that  *)
(* overflow is reachable: an overflowing +, - or += panics when the build  *)
(* has overflow checks (cargo's dev profile) and wraps otherwise.          *)
(***************************************************************************)
EXTENDS Integers, Sequences, FiniteSets, TLC

VARIABLES
    program,          \* the lines read by main, as token sequences
    overflow_checks,  \* build profile: TRUE = arithmetic overflow panics
    ic,               \* asmbunny State.ic
    registers,        \* asmbunny State.registers (HashMap: id -> i64)
    instructions,     \* asmbunny State.instructions (Vec<Instruction>)
    ret,              \* what the last step()/step_turbo() call returned
    panicked,         \* the asmbunny process died in a panic
    written,          \* history: the registers the caller seeded or an executed
                      \* cpy, inc or dec had as its target
    toggled_from,     \* history: for each slot, the instruction its latest
                      \* toggle replaced, if it was ever toggled
    instructions23,   \* day23 main's instructions: the parse result it clones from
    instructions12,   \* day12 main's instructions: its parse result
    ic12,             \* day12 State.ic
    registers12,      \* day12 State.registers
    panicked12,       \* the day12 process died in a panic
    node_defs,        \* day22 main's node_defs (HashMap: [y, x] -> Node)
    current,          \* day22: the State main's loop has taken from its queue
    panicked22        \* the day22 process died in a panic

vars == <<program, overflow_checks, instructions23, instructions12,
          ic, registers, instructions, ret, panicked, written, toggled_from,
          ic12, registers12, panicked12, node_defs, current, panicked22>>

\* what main reads and parses before the run, and the build: fixed afterwards
input_vars == <<program, overflow_checks, instructions23, instructions12>>

asm_vars == <<ic, registers, instructions, ret, panicked, written, toggled_from>>
day12_vars == <<ic12, registers12, panicked12>>
day22_vars == <<node_defs, current, panicked22>>

---------------------------------------------------------------------------
(* Bounds *)

\* width of the scaled i64
IntBits == 7
\* the number of ordinary steps a run is followed for when it is compared
\* with what the closure of day23 leaves
MaxSlowSteps == 16
\* longest program drawn from the line vocabulary
MaxLen == 2
\* the greatest number of tokens of the lines handed to the parser alone
MaxTokens == 3

---------------------------------------------------------------------------
(* Option<T> as a sequence of length 0 or 1 *)

None == <<>>
Some(x) == <<x>>
is_some(o) == Len(o) = 1
is_none(o) == Len(o) = 0
unwrap(o) == o[1]

---------------------------------------------------------------------------
(* i64 *)

RECURSIVE Pow2(_)
Pow2(n) == IF n = 0 THEN 1 ELSE 2 * Pow2(n - 1)

I64_MAX == Pow2(IntBits - 1) - 1
I64_MIN == -Pow2(IntBits - 1)
I64 == I64_MIN..I64_MAX

fits_i64(n) == I64_MIN <= n /\ n <= I64_MAX

\* two's complement wrap-around of a mathematical integer
wrapping(n) == ((n - I64_MIN) % Pow2(IntBits)) + I64_MIN

\* the i64 operators + and - (and += , -=): None models the overflow panic
i64_add(x, y) ==
    IF fits_i64(x + y) THEN Some(x + y)
    ELSE IF overflow_checks THEN None
    ELSE Some(wrapping(x + y))

i64_sub(x, y) ==
    IF fits_i64(x - y) THEN Some(x - y)
    ELSE IF overflow_checks THEN None
    ELSE Some(wrapping(x - y))

i64_mul(x, y) ==
    IF fits_i64(x * y) THEN Some(x * y)
    ELSE IF overflow_checks THEN None
    ELSE Some(wrapping(x * y))

---------------------------------------------------------------------------
(* str::parse::<i64>() *)

Digits == <<"0", "1", "2", "3", "4", "5", "6", "7", "8", "9">>

is_digit(ch) == \E i \in 1..10 : Digits[i] = ch
digit_value(ch) == (CHOOSE i \in 1..10 : Digits[i] = ch) - 1

\* the magnitude of a digit string, capped above every i64 magnitude so that
\* the accumulation stays small (the real parser stops with PosOverflow or
\* NegOverflow there)
RECURSIVE magnitude(_, _)
magnitude(digits, acc) ==
    IF digits = <<>> THEN acc
    ELSE LET n == acc * 10 + digit_value(Head(digits)) IN
         magnitude(Tail(digits), IF n > Pow2(IntBits) THEN Pow2(IntBits) + 1 ELSE n)

\* Some(value) for [+-]?[0-9]+ within i64, None (a ParseIntError) otherwise
parse_i64(s) ==
    IF s = <<>> THEN None
    ELSE LET signed == Head(s) \in {"+", "-"}
             digits == IF signed THEN Tail(s) ELSE s
             mag    == magnitude(digits, 0)
             value  == IF Head(s) = "-" THEN -mag ELSE mag
         IN  IF digits = <<>> THEN None
             ELSE IF \E i \in 1..Len(digits) : ~is_digit(digits[i]) THEN None
             ELSE IF ~fits_i64(value) THEN None
             ELSE Some(value)

---------------------------------------------------------------------------
(* asmbunny: Source and Instruction, and their parsers *)

Constant(value) == [type |-> "Constant", value |-> value]
Register(id)    == [type |-> "Register", id |-> id]

\* a from_str that takes only unsigned digit strings for integers
Source_from_str_unsigned(s) ==
    LET v == parse_i64(s) IN
    IF is_some(v) /\ Head(s) \notin {"+", "-"} THEN Constant(unwrap(v)) ELSE Register(s)

\* <Source as FromStr>::from_str: never fails
Source_from_str(s) ==
    LET v == parse_i64(s) IN
    IF is_some(v) THEN Constant(unwrap(v)) ELSE Register(s)

Cpy(source, register) == [op |-> "Cpy", source |-> source, register |-> register]
Inc(register)         == [op |-> "Inc", register |-> register]
Dec(register)         == [op |-> "Dec", register |-> register]
Jnz(source, offset)   == [op |-> "Jnz", source |-> source, offset |-> offset]
Tgl(offset)           == [op |-> "Tgl", offset |-> offset]

Ok(v)  == [ok |-> TRUE, value |-> v]
Err(kind, data) == [ok |-> FALSE, err |-> kind, data |-> data]

cpy == <<"c", "p", "y">>
inc == <<"i", "n", "c">>
dec == <<"d", "e", "c">>
jnz == <<"j", "n", "z">>
tgl == <<"t", "g", "l">>

\* <Instruction as FromStr>::from_str on the tokens of a line
Instruction_from_str(tokens) ==
    IF Len(tokens) = 3 /\ tokens[1] = cpy
        THEN Ok(Cpy(Source_from_str(tokens[2]), Source_from_str(tokens[3])))
    ELSE IF Len(tokens) = 2 /\ tokens[1] = inc
        THEN Ok(Inc(Source_from_str(tokens[2])))
    ELSE IF Len(tokens) = 2 /\ tokens[1] = dec
        THEN Ok(Dec(Source_from_str(tokens[2])))
    ELSE IF Len(tokens) = 3 /\ tokens[1] = jnz
        THEN Ok(Jnz(Source_from_str(tokens[2]), Source_from_str(tokens[3])))
    ELSE IF Len(tokens) = 2 /\ tokens[1] = tgl
        THEN Ok(Tgl(Source_from_str(tokens[2])))
    ELSE Err("ParseInstruction", tokens)

\* .lines().map(|l| l.parse()).collect::<Result<_>>(): the first error, or
\* every instruction
parse_program(lines) ==
    IF \E i \in 1..Len(lines) : ~Instruction_from_str(lines[i]).ok
    THEN LET i == CHOOSE i \in 1..Len(lines) :
                      /\ ~Instruction_from_str(lines[i]).ok
                      /\ \A j \in 1..(i - 1) : Instruction_from_str(lines[j]).ok
         IN  Instruction_from_str(lines[i])
    ELSE Ok([i \in 1..Len(lines) |-> Instruction_from_str(lines[i]).value])

---------------------------------------------------------------------------
(* asmbunny: State *)

\* State::get_instruction: pos is an i64, the Vec is indexed from 0
get_instruction(insts, pos) ==
    IF pos < 0 THEN None
    ELSE IF pos >= Len(insts) THEN None
    ELSE Some(insts[pos + 1])

\* an entry that starts at 1
or_insert_1(regs, id) ==
    IF id \in DOMAIN regs THEN regs
    ELSE [k \in DOMAIN regs \cup {id} |-> IF k = id THEN 1 ELSE regs[k]]

\* HashMap::entry(id).or_insert(0)
or_insert_0(regs, id) ==
    IF id \in DOMAIN regs THEN regs
    ELSE [k \in DOMAIN regs \cup {id} |-> IF k = id THEN 0 ELSE regs[k]]

\* HashMap::insert(id, value)
insert(regs, id, value) ==
    [k \in DOMAIN regs \cup {id} |-> IF k = id THEN value ELSE regs[k]]

\* State::get_value: the value read, and the map it leaves (&mut self)
get_value(regs, source) ==
    IF source.type = "Constant"
    THEN [value |-> source.value, registers |-> regs]
    ELSE [value |-> or_insert_0(regs, source.id)[source.id],
          registers |-> or_insert_0(regs, source.id)]

\* State::set_value
set_value(regs, source, value) ==
    IF source.type = "Constant" THEN regs
    ELSE insert(regs, source.id, value)

\* a toggle whose Tgl arm yields Dec instead of Inc
toggle_Tgl_to_Dec(inst) ==
    CASE inst.op = "Cpy" -> [op |-> "Jnz", source |-> inst.source, offset |-> inst.register]
      [] inst.op = "Inc" -> [op |-> "Dec", register |-> inst.register]
      [] inst.op = "Dec" -> [op |-> "Inc", register |-> inst.register]
      [] inst.op = "Jnz" -> [op |-> "Cpy", source |-> inst.source, register |-> inst.offset]
      [] inst.op = "Tgl" -> [op |-> "Dec", register |-> inst.offset]

\* a toggle whose Dec arm was left as Dec
toggle_Dec_stays(inst) ==
    CASE inst.op = "Cpy" -> [op |-> "Jnz", source |-> inst.source, offset |-> inst.register]
      [] inst.op = "Inc" -> [op |-> "Dec", register |-> inst.register]
      [] inst.op = "Dec" -> [op |-> "Dec", register |-> inst.register]
      [] inst.op = "Jnz" -> [op |-> "Cpy", source |-> inst.source, register |-> inst.offset]
      [] inst.op = "Tgl" -> [op |-> "Inc", register |-> inst.offset]

\* a toggle whose Jnz -> Cpy arm swaps the two operands
toggle_swapped(inst) ==
    CASE inst.op = "Cpy" -> [op |-> "Jnz", source |-> inst.source, offset |-> inst.register]
      [] inst.op = "Inc" -> [op |-> "Dec", register |-> inst.register]
      [] inst.op = "Dec" -> [op |-> "Inc", register |-> inst.register]
      [] inst.op = "Jnz" -> [op |-> "Cpy", source |-> inst.offset, register |-> inst.source]
      [] inst.op = "Tgl" -> [op |-> "Inc", register |-> inst.offset]

\* the match of State::step that rewrites the toggled instruction
toggle(inst) ==
    CASE inst.op = "Cpy" -> Jnz(inst.source, inst.register)
      [] inst.op = "Inc" -> Dec(inst.register)
      [] inst.op = "Dec" -> Inc(inst.register)
      [] inst.op = "Jnz" -> Cpy(inst.source, inst.offset)
      [] inst.op = "Tgl" -> Inc(inst.offset)

\* what a call leaves behind: the machine, the returned bool ("true",
\* "false"), or a panic (ret "none")
Returned(i, regs, insts, r) ==
    [ic |-> i, registers |-> regs, instructions |-> insts, ret |-> r, panicked |-> FALSE]
Panicked(i, regs, insts) ==
    [ic |-> i, registers |-> regs, instructions |-> insts, ret |-> "none", panicked |-> TRUE]

\* the tail of State::step: self.ic += 1; true
advance(i, regs, insts) ==
    LET n == i64_add(i, 1) IN
    IF is_none(n) THEN Panicked(i, regs, insts)
    ELSE Returned(unwrap(n), regs, insts, "true")

\* a Cpy that stores before it reads: the target gets its own old value
step_Cpy_reversed(s, inst) ==
    LET v == get_value(s.registers, inst.register) IN
    advance(s.ic, set_value(v.registers, inst.source, v.value), s.instructions)

step_Cpy(s, inst) ==
    LET v == get_value(s.registers, inst.source) IN
    advance(s.ic, set_value(v.registers, inst.register, v.value), s.instructions)

step_Inc(s, inst) ==
    LET v == get_value(s.registers, inst.register)
        n == i64_add(v.value, 1)
    IN  IF is_none(n) THEN Panicked(s.ic, v.registers, s.instructions)
        ELSE advance(s.ic, set_value(v.registers, inst.register, unwrap(n)), s.instructions)

\* a Dec pasted from Inc with the + left in
step_Dec_adds(s, inst) ==
    LET v == get_value(s.registers, inst.register)
        n == i64_add(v.value, 1)
    IN  IF is_none(n) THEN Panicked(s.ic, v.registers, s.instructions)
        ELSE advance(s.ic, set_value(v.registers, inst.register, unwrap(n)), s.instructions)

step_Dec(s, inst) ==
    LET v == get_value(s.registers, inst.register)
        n == i64_sub(v.value, 1)
    IN  IF is_none(n) THEN Panicked(s.ic, v.registers, s.instructions)
        ELSE advance(s.ic, set_value(v.registers, inst.register, unwrap(n)), s.instructions)

\* a Jnz that also takes the default advance after the jump
step_Jnz_plus_one(s, inst) ==
    LET v == get_value(s.registers, inst.source)
        o == get_value(v.registers, inst.offset)
        n == i64_add(s.ic, o.value + 1)
    IN  IF v.value # 0
        THEN IF is_none(n) THEN Panicked(s.ic, o.registers, s.instructions)
             ELSE Returned(unwrap(n), o.registers, s.instructions, "true")
        ELSE advance(s.ic, o.registers, s.instructions)

step_Jnz(s, inst) ==
    LET v == get_value(s.registers, inst.source)
        o == get_value(v.registers, inst.offset)
        n == i64_add(s.ic, o.value)
    IN  IF v.value # 0
        THEN IF is_none(n) THEN Panicked(s.ic, o.registers, s.instructions)
             ELSE Returned(unwrap(n), o.registers, s.instructions, "true")
        ELSE advance(s.ic, o.registers, s.instructions)

\* a Tgl that, when it targets itself, also runs the Inc it has just written
step_Tgl_runs_target(s, inst) ==
    LET o == get_value(s.registers, inst.offset)
        t == i64_add(s.ic, o.value)
    IN  IF is_none(t) THEN Panicked(s.ic, o.registers, s.instructions)
        ELSE LET target == get_instruction(s.instructions, unwrap(t)) IN
             IF is_some(target) /\ unwrap(t) = s.ic
             THEN step_Inc([ic |-> s.ic, registers |-> o.registers,
                            instructions |-> [s.instructions EXCEPT ![unwrap(t) + 1] =
                                                 toggle(unwrap(target))]],
                           toggle(unwrap(target)))
             ELSE IF is_some(target)
             THEN advance(s.ic, o.registers,
                          [s.instructions EXCEPT ![unwrap(t) + 1] = toggle(unwrap(target))])
             ELSE advance(s.ic, o.registers, s.instructions)

step_Tgl(s, inst) ==
    LET o == get_value(s.registers, inst.offset)
        t == i64_add(s.ic, o.value)
    IN  IF is_none(t) THEN Panicked(s.ic, o.registers, s.instructions)
        ELSE LET target == get_instruction(s.instructions, unwrap(t)) IN
             IF is_some(target)
             THEN advance(s.ic, o.registers,
                          [s.instructions EXCEPT ![unwrap(t) + 1] = toggle(unwrap(target))])
             ELSE advance(s.ic, o.registers, s.instructions)

\* a step that moves on from a counter that addresses nothing
step_past_the_end(s) ==
    LET inst == get_instruction(s.instructions, s.ic) IN
    IF is_none(inst) THEN advance(s.ic, s.registers, s.instructions)
    ELSE CASE unwrap(inst).op = "Cpy" -> step_Cpy(s, unwrap(inst))
           [] unwrap(inst).op = "Inc" -> step_Inc(s, unwrap(inst))
           [] unwrap(inst).op = "Dec" -> step_Dec(s, unwrap(inst))
           [] unwrap(inst).op = "Jnz" -> step_Jnz(s, unwrap(inst))
           [] unwrap(inst).op = "Tgl" -> step_Tgl(s, unwrap(inst))

\* State::step on the machine s = [ic, registers, instructions]
step(s) ==
    LET inst == get_instruction(s.instructions, s.ic) IN
    IF is_none(inst) THEN Returned(s.ic, s.registers, s.instructions, "false")
    ELSE CASE unwrap(inst).op = "Cpy" -> step_Cpy(s, unwrap(inst))
           [] unwrap(inst).op = "Inc" -> step_Inc(s, unwrap(inst))
           [] unwrap(inst).op = "Dec" -> step_Dec(s, unwrap(inst))
           [] unwrap(inst).op = "Jnz" -> step_Jnz(s, unwrap(inst))
           [] unwrap(inst).op = "Tgl" -> step_Tgl(s, unwrap(inst))

\* the machine held by the variables
state == [ic |-> ic, registers |-> registers, instructions |-> instructions]

\* State::from_instructions: counter 0, no register
EmptyMap == [k \in {} |-> 0]
from_instructions(insts) == [ic |-> 0, registers |-> EmptyMap, instructions |-> insts]

---------------------------------------------------------------------------
(* day23 part 2: the closure handed to step_turbo, and step_turbo *)

\* the five lines the closure parses and unwraps
slow ==
    LET lines == << <<inc, <<"a">>>>,
                    <<dec, <<"c">>>>,
                    <<jnz, <<"c">>, <<"-", "2">>>>,
                    <<dec, <<"d">>>>,
                    <<jnz, <<"d">>, <<"-", "5">>>> >>
    IN  [i \in 1..5 |-> Instruction_from_str(lines[i]).value]

\* what the closure leaves: its Option<bool>, the machine, and whether it
\* panicked
Patched(o, i, regs, insts) ==
    [ret |-> o, ic |-> i, registers |-> regs, instructions |-> insts,
     panicked |-> FALSE]
PatchPanicked(s) ==
    [ret |-> None, ic |-> s.ic, registers |-> s.registers,
     instructions |-> s.instructions, panicked |-> TRUE]

\* the closure |s| { ... }: at counter 5, when the instructions 5..9 are the
\* five of slow, a = a + c * d, c = 0, d = 0, counter += 5 and Some(true);
\* None otherwise.  registers["a"] panics when the map has no such key.
speed_patch(s) ==
    LET unchanged == Patched(None, s.ic, s.registers, s.instructions) IN
    IF s.ic # 5 THEN unchanged
    ELSE IF \E i \in 0..4 :
               LET inst == get_instruction(s.instructions, 5 + i) IN
               is_none(inst) \/ unwrap(inst) # slow[i + 1]
    THEN unchanged
    ELSE IF ~({<<"a">>, <<"c">>, <<"d">>} \subseteq DOMAIN s.registers)
    THEN PatchPanicked(s)
    ELSE LET a == s.registers[<<"a">>]
             c == s.registers[<<"c">>]
             d == s.registers[<<"d">>]
             cd == i64_mul(c, d)
             sum == IF is_some(cd) THEN i64_add(a, unwrap(cd)) ELSE None
             next == i64_add(s.ic, 5)
         IN  IF is_none(sum) \/ is_none(next) THEN PatchPanicked(s)
             ELSE Patched(Some("true"), unwrap(next),
                          insert(insert(insert(s.registers, <<"a">>, unwrap(sum)),
                                        <<"c">>, 0), <<"d">>, 0),
                          s.instructions)

\* a step_turbo that runs the ordinary step even after the closure took over
step_turbo_steps_anyway(s) ==
    LET p == speed_patch(s) IN
    IF p.panicked THEN Panicked(p.ic, p.registers, p.instructions)
    ELSE step([ic |-> p.ic, registers |-> p.registers,
               instructions |-> p.instructions])

\* State::step_turbo with the closure of day23
step_turbo(s) ==
    LET p == speed_patch(s) IN
    IF p.panicked THEN Panicked(p.ic, p.registers, p.instructions)
    ELSE IF is_some(p.ret)
    THEN Returned(p.ic, p.registers, p.instructions, unwrap(p.ret))
    ELSE step([ic |-> p.ic, registers |-> p.registers,
               instructions |-> p.instructions])

---------------------------------------------------------------------------
(* day12: the machine without toggle *)

\* day12's own copy of <Source as FromStr>::from_str
Day12_Source_from_str(s) ==
    LET v == parse_i64(s) IN
    IF is_some(v) THEN Constant(unwrap(v)) ELSE Register(s)

\* day12's Instruction: register is a String, offset an i64
Day12_Cpy(source, register) == [op |-> "Cpy", source |-> source, register |-> register]
Day12_Inc(register)         == [op |-> "Inc", register |-> register]
Day12_Dec(register)         == [op |-> "Dec", register |-> register]
Day12_Jnz(source, offset)   == [op |-> "Jnz", source |-> source, offset |-> offset]

Day12_Instruction_from_str(tokens) ==
    IF Len(tokens) = 3 /\ tokens[1] = cpy
        THEN Ok(Day12_Cpy(Day12_Source_from_str(tokens[2]), tokens[3]))
    ELSE IF Len(tokens) = 2 /\ tokens[1] = inc
        THEN Ok(Day12_Inc(tokens[2]))
    ELSE IF Len(tokens) = 2 /\ tokens[1] = dec
        THEN Ok(Day12_Dec(tokens[2]))
    ELSE IF Len(tokens) = 3 /\ tokens[1] = jnz
        THEN IF is_some(parse_i64(tokens[3]))
             THEN Ok(Day12_Jnz(Day12_Source_from_str(tokens[2]), unwrap(parse_i64(tokens[3]))))
             ELSE Err("ParseInt", tokens[3])
    ELSE Err("ParseInstruction", tokens)

Day12_parse_program(lines) ==
    IF \E i \in 1..Len(lines) : ~Day12_Instruction_from_str(lines[i]).ok
    THEN LET i == CHOOSE i \in 1..Len(lines) :
                      /\ ~Day12_Instruction_from_str(lines[i]).ok
                      /\ \A j \in 1..(i - 1) : Day12_Instruction_from_str(lines[j]).ok
         IN  Day12_Instruction_from_str(lines[i])
    ELSE Ok([i \in 1..Len(lines) |-> Day12_Instruction_from_str(lines[i]).value])

\* day12 State::get_value
Day12_get_value(regs, source) ==
    IF source.type = "Constant"
    THEN [value |-> source.value, registers |-> regs]
    ELSE [value |-> or_insert_0(regs, source.id)[source.id],
          registers |-> or_insert_0(regs, source.id)]

Day12_Returned(i, regs) == [ic |-> i, registers |-> regs, panicked |-> FALSE]
Day12_Panicked(i, regs) == [ic |-> i, registers |-> regs, panicked |-> TRUE]

\* the tail of day12 State::step: self.ic += 1
Day12_advance(i, regs) ==
    LET n == i64_add(i, 1) IN
    IF is_none(n) THEN Day12_Panicked(i, regs) ELSE Day12_Returned(unwrap(n), regs)

\* day12 State::step(inst) on s = [ic, registers]
Day12_step(s, inst) ==
    CASE inst.op = "Cpy" ->
            LET v == Day12_get_value(s.registers, inst.source) IN
            Day12_advance(s.ic, insert(v.registers, inst.register, v.value))
      [] inst.op = "Inc" ->
            LET regs == or_insert_0(s.registers, inst.register)
                n == i64_add(regs[inst.register], 1)
            IN  IF is_none(n) THEN Day12_Panicked(s.ic, regs)
                ELSE Day12_advance(s.ic, insert(regs, inst.register, unwrap(n)))
      [] inst.op = "Dec" ->
            LET regs == or_insert_0(s.registers, inst.register)
                n == i64_sub(regs[inst.register], 1)
            IN  IF is_none(n) THEN Day12_Panicked(s.ic, regs)
                ELSE Day12_advance(s.ic, insert(regs, inst.register, unwrap(n)))
      [] inst.op = "Jnz" ->
            LET v == Day12_get_value(s.registers, inst.source)
                n == i64_add(s.ic, inst.offset)
            IN  IF v.value # 0
                THEN IF is_none(n) THEN Day12_Panicked(s.ic, v.registers)
                     ELSE Day12_Returned(unwrap(n), v.registers)
                ELSE Day12_advance(s.ic, v.registers)

state12 == [ic |-> ic12, registers |-> registers12]

\* the condition of main's while loops
Day12_running ==
    /\ instructions12.ok
    /\ ic12 >= 0
    /\ ic12 < Len(instructions12.value)

---------------------------------------------------------------------------
(* Inputs: the lines the programs are drawn from *)

\* the decimal token of an integer (only used to write inputs)
RECURSIVE digits_of(_)
digits_of(n) ==
    IF n < 10 THEN <<Digits[n + 1]>>
    ELSE Append(digits_of(n \div 10), Digits[(n % 10) + 1])
to_token(n) == IF n < 0 THEN <<"-">> \o digits_of(-n) ELSE digits_of(n)

RegA == <<"a">>
RegB == <<"b">>
RegC == <<"c">>
RegD == <<"d">>

\* every line of the five forms: cpy sources, jnz conditions, and the
\* operands that are targets or offsets
LinesOver(srcs, conds, dsts) ==
    {<<cpy, x, y>> : x \in srcs, y \in dsts} \cup {<<jnz, x, y>> : x \in conds, y \in dsts}
    \cup {<<m, y>> : m \in {inc, dec, tgl}, y \in dsts}

RECURSIVE SeqsUpTo(_, _)
SeqsUpTo(S, n) ==
    IF n = 0 THEN {<<>>}
    ELSE LET shorter == SeqsUpTo(S, n - 1) IN
         shorter \cup {Append(p, x) : p \in shorter, x \in S}

\* the operands of the machine runs: one register, the constants 1 and -1,
\* and as cpy sources the least and the greatest i64
Operands == {RegA, to_token(1), to_token(-1)}
Lines == LinesOver({RegA, to_token(1), to_token(I64_MAX), to_token(I64_MIN)},
                   {RegA, to_token(1)}, Operands)
Programs == SeqsUpTo(Lines, MaxLen) \ {<<>>}

\* registers the caller inserts before the run (day23.rs:29 seeds a with 7)
Seeds == {EmptyMap, insert(EmptyMap, RegA, 7)}

\* the day22 variables while that program is not the one run
Day22NotRun ==
    /\ node_defs = <<>>
    /\ current = [map |-> <<>>, target_pos |-> <<0, 0>>]
    /\ panicked22 = FALSE

\* main: parse the lines, build the machines, seed a register.  When a line
\* does not parse main returns the error and no machine is ever stepped.
InitWith(progs, seeds) ==
    /\ program \in progs
    /\ overflow_checks \in BOOLEAN
    /\ instructions23 = parse_program(program)
    /\ instructions12 = Day12_parse_program(program)
    /\ registers \in seeds
    /\ ic = 0
    /\ instructions = IF instructions23.ok
                      THEN from_instructions(instructions23.value).instructions
                      ELSE <<>>
    /\ ret = "none"
    /\ panicked = FALSE
    /\ written = DOMAIN registers
    /\ toggled_from = [k \in 1..Len(instructions) |-> None]
    /\ ic12 = 0
    /\ registers12 = registers
    /\ panicked12 = FALSE
    /\ Day22NotRun

Init == InitWith(Programs, Seeds)

---------------------------------------------------------------------------
(* Operations *)

\* the register the instruction at the counter has as the target of a cpy,
\* inc or dec, if any
target_of(s) ==
    LET inst == get_instruction(s.instructions, s.ic) IN
    IF is_some(inst) /\ unwrap(inst).op \in {"Cpy", "Inc", "Dec"}
                    /\ unwrap(inst).register.type = "Register"
    THEN {unwrap(inst).register.id}
    ELSE {}

\* the slot (counted from 1) the Tgl at the counter overwrites, if any
toggled_slot(s) ==
    LET inst == get_instruction(s.instructions, s.ic) IN
    IF is_some(inst) /\ unwrap(inst).op = "Tgl"
    THEN LET t == i64_add(s.ic, get_value(s.registers, unwrap(inst).offset).value) IN
         IF is_some(t) /\ is_some(get_instruction(s.instructions, unwrap(t)))
         THEN {unwrap(t) + 1}
         ELSE {}
    ELSE {}

\* the history after a step() from s
toggled_after(s) ==
    [k \in DOMAIN toggled_from |->
        IF k \in toggled_slot(s) THEN Some(s.instructions[k]) ELSE toggled_from[k]]

\* State::step called on the machine
StepEffect ==
    /\ instructions23.ok
    /\ ~panicked
    /\ LET r == step(state) IN
         /\ ic' = r.ic
         /\ registers' = r.registers
         /\ instructions' = r.instructions
         /\ ret' = r.ret
         /\ panicked' = r.panicked
    /\ written' = written \cup target_of(state)
    /\ toggled_from' = toggled_after(state)

\* day12 State::step called on the instruction at the counter
Day12Effect ==
    /\ ~panicked12
    /\ LET r == Day12_step(state12, instructions12.value[ic12 + 1]) IN
         /\ ic12' = r.ic
         /\ registers12' = r.registers
         /\ panicked12' = r.panicked

\* a call of State::step
Step ==
    /\ StepEffect
    /\ UNCHANGED input_vars
    /\ UNCHANGED day12_vars
    /\ UNCHANGED day22_vars

\* the condition of day23 main's loops: while let Some(_) = get_instruction(ic)
Day23_running ==
    /\ instructions23.ok
    /\ is_some(get_instruction(instructions, ic))

\* one iteration of day23 main's first loop
Day23Iter ==
    /\ Day23_running
    /\ Step

\* one iteration of day12 main's loop
Day12Iter ==
    /\ Day12_running
    /\ Day12Effect
    /\ UNCHANGED input_vars
    /\ UNCHANGED asm_vars
    /\ UNCHANGED day22_vars

Next == Step

Spec == Init /\ [][Next]_vars

---------------------------------------------------------------------------
(* The two machines side by side on the same lines and the same seed *)

\* the lines of the comparison: registers a and c, constants as sources,
\* targets and offsets, a tgl, and two lines no parser takes
EqLines ==
    {<<cpy, x, y>> : x \in {RegC, to_token(1), to_token(I64_MAX)}, y \in {RegA, to_token(1)}}
    \cup {<<jnz, RegA, y>> : y \in {RegA, to_token(-1), to_token(2)}}
    \cup {<<m, y>> : m \in {inc, dec}, y \in {RegA, to_token(1)}}
    \cup {<<tgl, RegA>>, <<inc>>, <<>>}
EqPrograms == SeqsUpTo(EqLines, MaxLen) \ {<<>>}

\* day12.rs:136 seeds c with 1 for part 2, and nothing for part 1
EqSeeds == {EmptyMap, insert(EmptyMap, RegC, 1)}

EqInit == InitWith(EqPrograms, EqSeeds)

\* the k-th iteration of day23 main's loop and of day12 main's loop, taken
\* together; a loop that has ended (or a process that has died) stays put
LockStep ==
    /\ (Day23_running /\ ~panicked) \/ (Day12_running /\ ~panicked12)
    /\ IF Day23_running /\ ~panicked THEN StepEffect ELSE UNCHANGED asm_vars
    /\ IF Day12_running /\ ~panicked12 THEN Day12Effect ELSE UNCHANGED day12_vars
    /\ UNCHANGED input_vars
    /\ UNCHANGED day22_vars

EqNext == LockStep

EqSpec == EqInit /\ [][EqNext]_vars

---------------------------------------------------------------------------
(* The drivers on the two self-test programs *)

\* cpy 2 a, tgl a, tgl a, tgl a, cpy 1 a, dec a, dec a  (day23.rs:23)
ScenarioA ==
    << <<cpy, to_token(2), RegA>>, <<tgl, RegA>>, <<tgl, RegA>>, <<tgl, RegA>>,
       <<cpy, to_token(1), RegA>>, <<dec, RegA>>, <<dec, RegA>> >>

\* cpy 41 a, inc a, inc a, dec a, jnz a 2, dec a
ScenarioB ==
    << <<cpy, to_token(41), RegA>>, <<inc, RegA>>, <<inc, RegA>>, <<dec, RegA>>,
       <<jnz, RegA, to_token(2)>>, <<dec, RegA>> >>

\* the seeds of the drivers: none, a = 7, a = 12 (day23.rs:29, 37), c = 1
ScenarioSeeds ==
    {EmptyMap, insert(EmptyMap, RegA, 7), insert(EmptyMap, RegA, 12), insert(EmptyMap, RegC, 1)}

ScenarioInit == InitWith({ScenarioA, ScenarioB}, ScenarioSeeds)

ScenarioNext == Day23Iter \/ Day12Iter

\* each main is a plain loop: an iteration that can run does run
ScenarioSpec ==
    ScenarioInit /\ [][ScenarioNext]_vars /\ WF_vars(Day23Iter) /\ WF_vars(Day12Iter)

---------------------------------------------------------------------------
(* The accelerated run of day23 part 2 (day23.rs:36-75) *)

\* inc a, dec c, jnz c -2, dec d, jnz d -5: the loop the closure looks for
SlowLoop ==
    << <<inc, RegA>>, <<dec, RegC>>, <<jnz, RegC, to_token(-2)>>,
       <<dec, RegD>>, <<jnz, RegD, to_token(-5)>> >>

\* the lines 5..9: the loop, the loop with another last line, and the loop
\* cut short by one line
TurboTails ==
    {SlowLoop,
     [SlowLoop EXCEPT ![5] = <<jnz, to_token(0), to_token(-5)>>],
     SubSeq(SlowLoop, 1, 4)}

\* the lines 0..4: b, d and c are set (or jumped over), an instruction is
\* toggled, and the line before the loop (the one jnz d -5 returns to)
\* refreshes c from b, sets it to 1, or leaves it alone
TurboHeads ==
    {<<l0, l1, l2, l3, l4>> :
        l0 \in {<<cpy, to_token(2), RegB>>, <<cpy, to_token(I64_MAX), RegB>>},
        l1 \in {<<cpy, to_token(2), RegD>>, <<cpy, to_token(1), RegD>>,
                <<jnz, to_token(1), to_token(4)>>},
        l2 \in {<<cpy, RegB, RegC>>, <<tgl, RegD>>, <<jnz, to_token(1), to_token(3)>>},
        l3 \in {<<jnz, to_token(1), to_token(2)>>, <<dec, RegD>>, <<inc, RegB>>},
        l4 \in {<<cpy, RegB, RegC>>, <<cpy, to_token(1), RegC>>, <<inc, RegA>>}}

TurboPrograms == {h \o t : h \in TurboHeads, t \in TurboTails}

\* day23.rs:37 seeds a with 12
TurboSeeds == {insert(EmptyMap, RegA, 12)}

TurboInit == InitWith(TurboPrograms, TurboSeeds)

\* State::step_turbo called on the machine
TurboEffect ==
    /\ instructions23.ok
    /\ ~panicked
    /\ LET r == step_turbo(state) IN
         /\ ic' = r.ic
         /\ registers' = r.registers
         /\ instructions' = r.instructions
         /\ ret' = r.ret
         /\ panicked' = r.panicked
    /\ written' = written \cup
           (IF is_some(speed_patch(state).ret) THEN {RegA, RegC, RegD}
            ELSE target_of(state))
    /\ toggled_from' = IF is_some(speed_patch(state).ret) THEN toggled_from
                       ELSE toggled_after(state)

\* one iteration of day23 main's second loop
TurboIter ==
    /\ Day23_running
    /\ TurboEffect
    /\ UNCHANGED input_vars
    /\ UNCHANGED day12_vars
    /\ UNCHANGED day22_vars

TurboNext == TurboIter

TurboSpec == TurboInit /\ [][TurboNext]_vars

---------------------------------------------------------------------------
(* Parsing alone: main reads one line and parses it (day23.rs:17-21) *)

\* mnemonics, something that is no mnemonic, and operand tokens: a register
\* name, integers with and without a sign or a leading zero, the i64 bounds
\* and their neighbours outside i64, a lone sign, digits followed by a letter
ParseTokens ==
    {cpy, inc, dec, jnz, tgl, <<"n", "o", "p">>,
     RegA, to_token(1), to_token(-1), <<"+", "1">>, <<"0", "1">>, <<"-">>,
     <<"1", "a">>, to_token(I64_MAX), to_token(I64_MAX + 1),
     to_token(I64_MIN), to_token(I64_MIN - 1)}

\* the lines of up to MaxTokens tokens, and each mnemonic with one operand
\* more than that
ParseLines ==
    SeqsUpTo(ParseTokens, MaxTokens)
    \cup {<<m>> \o [i \in 1..MaxTokens |-> RegA] : m \in {cpy, inc, dec, jnz, tgl}}

\* the result before main has parsed anything
NotParsed == [ok |-> FALSE, err |-> "none", data |-> <<>>]

ParseInit ==
    /\ program \in {<<l>> : l \in ParseLines}
    /\ overflow_checks \in BOOLEAN
    /\ instructions23 = NotParsed
    /\ instructions12 = NotParsed
    /\ registers = EmptyMap
    /\ ic = 0
    /\ instructions = <<>>
    /\ ret = "none"
    /\ panicked = FALSE
    /\ written = {}
    /\ toggled_from = <<>>
    /\ ic12 = 0
    /\ registers12 = EmptyMap
    /\ panicked12 = FALSE
    /\ Day22NotRun

\* main parses the lines and, when they parse, builds the machine
Parse ==
    /\ instructions23 = NotParsed
    /\ instructions23' = parse_program(program)
    /\ instructions' = IF instructions23'.ok
                       THEN from_instructions(instructions23'.value).instructions
                       ELSE <<>>
    /\ UNCHANGED <<program, overflow_checks, instructions12>>
    /\ toggled_from' = [k \in 1..Len(instructions') |-> None]
    /\ UNCHANGED <<ic, registers, ret, panicked, written>>
    /\ UNCHANGED day12_vars
    /\ UNCHANGED day22_vars

ParseNext == Parse

ParseSpec == ParseInit /\ [][ParseNext]_vars

---------------------------------------------------------------------------
(* Programs that toggle: three lines, so that one slot can be toggled from
   two places, or again and again from a loop *)

ToggleLines ==
    {<<tgl, to_token(0)>>, <<tgl, to_token(1)>>, <<tgl, to_token(2)>>, <<tgl, RegA>>,
     <<inc, RegA>>, <<dec, RegA>>, <<dec, to_token(1)>>,
     <<jnz, RegA, to_token(-2)>>, <<jnz, to_token(1), to_token(-2)>>,
     <<cpy, to_token(2), RegA>>}

TogglePrograms == {<<l0, l1, l2>> : l0 \in ToggleLines, l1 \in ToggleLines, l2 \in ToggleLines}

ToggleInit == InitWith(TogglePrograms, Seeds)

ToggleNext == Step

ToggleSpec == ToggleInit /\ [][ToggleNext]_vars

---------------------------------------------------------------------------
(* day22: the grid of nodes and the moves of data between them *)

\* the integer types of Node: x, y are i8, size and used are u16
I8_MIN == -128
I8_MAX == 127
U16_MAX == 65535

\* the operator + on i8 and on u16: None models the overflow panic
i8_add(x, y) ==
    IF I8_MIN <= x + y /\ x + y <= I8_MAX THEN Some(x + y)
    ELSE IF overflow_checks THEN None
    ELSE Some(((x + y - I8_MIN) % (I8_MAX - I8_MIN + 1)) + I8_MIN)

u16_add(x, y) ==
    IF x + y <= U16_MAX THEN Some(x + y)
    ELSE IF overflow_checks THEN None
    ELSE Some((x + y) % (U16_MAX + 1))

Node(x, y, size, used) == [x |-> x, y |-> y, size |-> size, used |-> used]
NodeStatus(used) == [used |-> used]

\* aoc2016::map::Map keyed by [i8; 2]: a partial function on positions
Map_get(m, pos) == IF pos \in DOMAIN m THEN Some(m[pos]) ELSE None
Map_set(m, pos, v) == [k \in DOMAIN m \cup {pos} |-> IF k = pos THEN v ELSE m[k]]

\* the least and the greatest coordinate of the keys, per axis
Map_get_extent(m) ==
    LET lo(axis) == CHOOSE c \in {k[axis] : k \in DOMAIN m} : \A k \in DOMAIN m : c <= k[axis]
        hi(axis) == CHOOSE c \in {k[axis] : k \in DOMAIN m} : \A k \in DOMAIN m : k[axis] <= c
    IN  << <<lo(1), lo(2)>>, <<hi(1), hi(2)>> >>

\* the four offsets tried for every source
Offsets == << <<-1, 0>>, <<1, 0>>, <<0, -1>>, <<0, 1>> >>

\* what one pass of the innermost loop body comes to
Skipped == [kind |-> "none"]
Died == [kind |-> "panic"]
Moved(new_state) == [kind |-> "state", state |-> new_state]

\* the body of get_neighbors' loops for the source at pos_source and one
\* offset
try_move(self, defs, pos_source, ofs) ==
    LET stat_source == Map_get(self.map, pos_source) IN
    IF is_none(stat_source) THEN Skipped
    ELSE IF unwrap(stat_source).used <= 0 THEN Skipped
    ELSE LET ti == i8_add(pos_source[1], ofs[1])
             tj == i8_add(pos_source[2], ofs[2])
         IN  IF is_none(ti) \/ is_none(tj) THEN Died
             ELSE LET pos_target == <<unwrap(ti), unwrap(tj)>>
                      stat_target == Map_get(self.map, pos_target)
                  IN  IF is_none(stat_target) THEN Skipped
                      ELSE IF pos_target \notin DOMAIN defs THEN Died
                      ELSE LET sum == u16_add(unwrap(stat_target).used,
                                              unwrap(stat_source).used)
                           IN  IF is_none(sum) THEN Died
                               ELSE IF unwrap(sum) <= defs[pos_target].size
                               THEN Moved([map |-> Map_set(Map_set(self.map, pos_source,
                                                                   NodeStatus(0)),
                                                           pos_target,
                                                           NodeStatus(unwrap(sum))),
                                           target_pos |-> IF pos_source = self.target_pos
                                                          THEN pos_target
                                                          ELSE self.target_pos])
                               ELSE Skipped

\* State::get_neighbors: the new states in the order of the loops, or a
\* panic
get_neighbors(self, defs) ==
    LET extent == Map_get_extent(self.map)
        min == extent[1]
        max == extent[2]
        columns == max[2] - min[2] + 1
        passes == (max[1] - min[1] + 1) * columns * 4
        pass(k) == try_move(self, defs,
                            <<min[1] + (k \div (columns * 4)), min[2] + ((k \div 4) % columns)>>,
                            Offsets[(k % 4) + 1])
        results == [k \in 1..passes |-> pass(k - 1)]
        moves == SelectSeq(results, LAMBDA p : p.kind = "state")
    IN  IF \E k \in 1..passes : results[k].kind = "panic"
        THEN [panicked |-> TRUE, out |-> <<>>]
        ELSE [panicked |-> FALSE, out |-> [k \in 1..Len(moves) |-> moves[k].state]]

\* positions [y, x] of the grids: a square, a row, a square without a
\* corner, and two nodes at the greatest x an i8 holds
Grids ==
    {(0..1) \X (0..1),
     {0} \X (0..2),
     ((0..1) \X (0..1)) \ {<<1, 1>>},
     {0} \X ((I8_MAX - 1)..I8_MAX)}

\* size and used of a node as df prints them, used within size: small
\* nodes, and nodes whose used amounts add up to more than a u16 holds
Capacities ==
    {c \in [size : {3, U16_MAX}, used : {0, 1, 2, 40000}] :
        c.used <= c.size /\ (c.size = U16_MAX => c.used \in {0, 40000})}

\* main: node_defs of the nodes read
NodeDefs ==
    UNION {{[pos \in grid |-> Node(pos[2], pos[1], c[pos].size, c[pos].used)] :
               c \in [grid -> Capacities]} : grid \in Grids}

\* main: the map of used amounts, and the target at row 0 of the last column
initial_state(defs) ==
    LET map == [pos \in DOMAIN defs |-> NodeStatus(defs[pos].used)] IN
    [map |-> map, target_pos |-> <<0, Map_get_extent(map)[2][2]>>]

Day22Init ==
    /\ node_defs \in NodeDefs
    /\ current = initial_state(node_defs)
    /\ panicked22 = FALSE
    /\ overflow_checks \in BOOLEAN
    /\ program = <<>>
    /\ instructions23 = NotParsed
    /\ instructions12 = NotParsed
    /\ registers = EmptyMap
    /\ ic = 0
    /\ instructions = <<>>
    /\ ret = "none"
    /\ panicked = FALSE
    /\ written = {}
    /\ toggled_from = <<>>
    /\ ic12 = 0
    /\ registers12 = EmptyMap
    /\ panicked12 = FALSE

\* one iteration of main's loop: the state taken from the queue is one of
\* the neighbours pushed when an earlier state was taken.  The queue itself
\* and the step count pushed with each state are left out: current follows
\* any one path of the search.
Day22Iter ==
    /\ ~panicked22
    /\ LET r == get_neighbors(current, node_defs) IN
         IF r.panicked
         THEN panicked22' = TRUE /\ UNCHANGED current
         ELSE panicked22' = FALSE /\ \E k \in 1..Len(r.out) : current' = r.out[k]
    /\ UNCHANGED node_defs
    /\ UNCHANGED input_vars
    /\ UNCHANGED asm_vars
    /\ UNCHANGED day12_vars

Day22Next == Day22Iter

Day22Spec == Day22Init /\ [][Day22Next]_vars

---------------------------------------------------------------------------
(* Vocabulary of the properties *)

\* the instruction the counter addresses, if any
cur == get_instruction(instructions, ic)
Halted == is_none(cur)

\* what a register reads as: 0 when it is not in the map
read(regs, id) == IF id \in DOMAIN regs THEN regs[id] ELSE 0

\* what an operand evaluates to
eval(regs, source) ==
    IF source.type = "Constant" THEN source.value ELSE read(regs, source.id)

\* two maps in which every register reads the same
SameValues(r1, r2) == \A id \in DOMAIN r1 \cup DOMAIN r2 : read(r1, id) = read(r2, id)

\* two maps in which every register but id reads the same
SameValuesBut(r1, r2, id) ==
    \A k \in (DOMAIN r1 \cup DOMAIN r2) \ {id} : read(r1, k) = read(r2, k)

\* the day12 instruction its counter addresses, if any
cur12 == IF Day12_running THEN Some(instructions12.value[ic12 + 1]) ELSE None

\* the mathematical index a Tgl at the counter points at
tgl_target == ic + eval(registers, unwrap(cur).offset)
InRange(t) == 0 <= t /\ t < Len(instructions)

---------------------------------------------------------------------------
(* Properties of State::step, checked under Spec *)

\* C1: step() returns false exactly when the counter, before the call, is
\* negative or >= the number of instructions (and then changes nothing); in
\* every other state it executes the instruction at the counter and returns
\* true.
C1_StepContract ==
    [][~panicked =>
          IF Halted
          THEN ret' = "false" /\ UNCHANGED <<ic, registers, instructions>>
          ELSE ret' = "true" /\ ~panicked']_vars

C8_Toggle ==
    [][(~panicked /\ ~Halted /\ unwrap(cur).op = "Tgl" /\ InRange(tgl_target)) =>
          LET t   == tgl_target
              old == instructions[t + 1]
              new == instructions'[t + 1]
          IN  /\ Len(instructions') = Len(instructions)
              /\ \A i \in 1..Len(instructions) : i # t + 1 => instructions'[i] = instructions[i]
              /\ old.op = "Cpy" =>
                    new = [op |-> "Jnz", source |-> old.source, offset |-> old.register]
              /\ old.op = "Inc" => new = [op |-> "Dec", register |-> old.register]
              /\ old.op = "Dec" => new = [op |-> "Inc", register |-> old.register]
              /\ old.op = "Jnz" =>
                    new = [op |-> "Cpy", source |-> old.source, register |-> old.offset]
              /\ old.op = "Tgl" => new = [op |-> "Inc", register |-> old.offset]
              /\ SameValues(registers, registers')
              /\ ic' = ic + 1
              /\ ret' = "true"]_vars

\* a Toggle at slot 0 has turned the Jnz in slot 1 into a Cpy
C8_Witness ==
    /\ Len(program) = 2
    /\ program[1] = <<tgl, to_token(1)>>
    /\ program[2] = <<jnz, RegA, to_token(-1)>>
    /\ ic = 1
    /\ ret = "true"
    /\ instructions[2] = [op |-> "Cpy", source |-> Register(RegA), register |-> Constant(-1)]

\* C9: a step at Toggle(o) whose target counter + value(o) is negative or
\* >= the instruction count leaves the instructions and every register
\* value, advances the counter by exactly 1 and returns true.
C9_ToggleOutOfRange ==
    [][(~panicked /\ ~Halted /\ unwrap(cur).op = "Tgl" /\ ~InRange(tgl_target)) =>
          /\ instructions' = instructions
          /\ SameValues(registers, registers')
          /\ ic' = ic + 1
          /\ ret' = "true"]_vars

\* C10: execution never enters an error state: every step() completes.
C10_NeverErrors == ~panicked

---------------------------------------------------------------------------
(* Properties of both machines, checked under EqSpec *)

\* C6: a step at Increment(dst) (Decrement(dst)) with a register dst leaves
\* in it its previous value (0 if unset) plus 1 (minus 1) and changes no
\* other register; with a constant dst no register changes; the instructions
\* stay as they are.  In asmbunny and in day12.
C6_IncDec ==
    [][/\ (~panicked /\ ~Halted /\ unwrap(cur).op \in {"Inc", "Dec"}) =>
             LET dst   == unwrap(cur).register
                 delta == IF unwrap(cur).op = "Inc" THEN 1 ELSE -1
             IN  /\ instructions' = instructions
                 /\ IF dst.type = "Register"
                    THEN /\ read(registers', dst.id) = read(registers, dst.id) + delta
                         /\ SameValuesBut(registers, registers', dst.id)
                    ELSE SameValues(registers, registers')
       /\ (~panicked12 /\ is_some(cur12) /\ unwrap(cur12).op \in {"Inc", "Dec"}) =>
             LET id    == unwrap(cur12).register
                 delta == IF unwrap(cur12).op = "Inc" THEN 1 ELSE -1
             IN  /\ read(registers12', id) = read(registers12, id) + delta
                 /\ SameValuesBut(registers12, registers12', id)]_vars

\* C7: a step at ConditionalJump(cond, offset) sets the counter to counter +
\* value(offset) when cond is nonzero and to counter + 1 when it is zero, and
\* changes no register value and no instruction.  In asmbunny and in day12.
C7_Jnz ==
    [][/\ (~panicked /\ ~Halted /\ unwrap(cur).op = "Jnz") =>
             /\ ic' = IF eval(registers, unwrap(cur).source) # 0
                      THEN ic + eval(registers, unwrap(cur).offset)
                      ELSE ic + 1
             /\ SameValues(registers, registers')
             /\ instructions' = instructions
       /\ (~panicked12 /\ is_some(cur12) /\ unwrap(cur12).op = "Jnz") =>
             /\ ic12' = IF eval(registers12, unwrap(cur12).source) # 0
                        THEN ic12 + unwrap(cur12).offset
                        ELSE ic12 + 1
             /\ SameValues(registers12, registers12')]_vars

---------------------------------------------------------------------------
(* The self-test programs, checked under ScenarioSpec *)

\* both drivers at their start on the lines p, with no register seeded
ScenarioStart(p) ==
    /\ program = p
    /\ ic = 0 /\ registers = EmptyMap /\ ret = "none"
    /\ ic12 = 0 /\ registers12 = EmptyMap

\* C2: from counter 0 and no registers, stepping cpy 2 a, tgl a, tgl a, tgl a,
\* cpy 1 a, dec a, dec a reaches a halted state, and a halted state of that
\* program has a = 3.
C2_ScenarioA ==
    /\ ScenarioStart(ScenarioA) ~> (Halted /\ read(registers, RegA) = 3)
    /\ []((program = ScenarioA /\ Halted) => read(registers, RegA) = 3)

\* the run has halted past the end, after tgl a became inc a and cpy 1 a
\* became jnz 1 a
C2_Witness ==
    /\ program = ScenarioA
    /\ Halted
    /\ ic = 7
    /\ registers = insert(EmptyMap, RegA, 3)
    /\ instructions[4] = [op |-> "Inc", register |-> Register(RegA)]
    /\ instructions[5] = [op |-> "Jnz", source |-> Constant(1), offset |-> Register(RegA)]

\* C3: from counter 0 and no registers, running cpy 41 a, inc a, inc a, dec a,
\* jnz a 2, dec a to halt ends with a = 42, in asmbunny and in day12.
C3_ScenarioB ==
    /\ ScenarioStart(ScenarioB) ~>
          (/\ Halted /\ read(registers, RegA) = 42
           /\ ~Day12_running /\ read(registers12, RegA) = 42)
    /\ []((program = ScenarioB /\ Halted) => read(registers, RegA) = 42)
    /\ []((program = ScenarioB /\ ~Day12_running) => read(registers12, RegA) = 42)

\* both runs have halted at counter 6, the jump having skipped the last dec
C3_Witness ==
    /\ program = ScenarioB
    /\ Halted /\ ic = 6 /\ registers = insert(EmptyMap, RegA, 42)
    /\ ~Day12_running /\ ic12 = 6 /\ registers12 = insert(EmptyMap, RegA, 42)

---------------------------------------------------------------------------
(* The two machines compared, checked under EqSpec *)

\* no line of the program is a tgl instruction
TglFree ==
    \A i \in 1..Len(program) :
        Instruction_from_str(program[i]).ok => Instruction_from_str(program[i]).value.op # "Tgl"

\* every target of a cpy, inc or dec is a register name, not an integer literal
RegisterTargets ==
    \A i \in 1..Len(program) :
        LET r == Instruction_from_str(program[i]) IN
        (r.ok /\ r.value.op \in {"Cpy", "Inc", "Dec"}) => r.value.register.type = "Register"

\* the two runs are at the same point: same counter, same register values,
\* both still running or both ended, both alive or both dead
SameRun ==
    /\ ic = ic12
    /\ SameValues(registers, registers12)
    /\ Day23_running <=> Day12_running
    /\ panicked <=> panicked12

\* C4 as stated: on every program without tgl the two parsers accept the same
\* lines and the two machines, equally seeded, are at the same point after
\* every step.
C4_AsStated ==
    TglFree =>
        /\ \A i \in 1..Len(program) :
              Instruction_from_str(program[i]).ok <=> Day12_Instruction_from_str(program[i]).ok
        /\ (instructions23.ok /\ instructions12.ok) => SameRun

\* C4 amended: the parsers differ only on tgl lines and on jnz lines whose
\* offset is no integer literal, which asmbunny alone accepts; on a program
\* without tgl that day12 accepts and whose cpy, inc and dec targets are
\* register names, the two machines are at the same point after every step.
C4_Equivalent ==
    /\ \A i \in 1..Len(program) :
          LET r23 == Instruction_from_str(program[i])
              r12 == Day12_Instruction_from_str(program[i])
          IN  (r23.ok # r12.ok) =>
                 /\ r23.ok
                 /\ \/ r23.value.op = "Tgl"
                    \/ r23.value.op = "Jnz" /\ r23.value.offset.type = "Register"
    /\ (TglFree /\ instructions12.ok /\ RegisterTargets) => SameRun

\* both machines, seeded with c = 1, have run cpy c a, dec a to the end
C4_Witness ==
    /\ program = << <<cpy, RegC, RegA>>, <<dec, RegA>> >>
    /\ TglFree /\ instructions12.ok /\ RegisterTargets
    /\ read(registers, RegC) = 1 /\ read(registers12, RegC) = 1
    /\ RegA \in DOMAIN registers /\ RegA \in DOMAIN registers12
    /\ read(registers, RegA) = 0 /\ read(registers12, RegA) = 0
    /\ ic = 2 /\ ic12 = 2

---------------------------------------------------------------------------
(* step_turbo and the closure of day23 *)

\* the closure's condition: the counter is 5 and the instructions 5..9 are
\* inc a, dec c, jnz c -2, dec d, jnz d -5
PatchFires ==
    /\ ic = 5
    /\ Len(instructions) >= 10
    /\ instructions[6] = [op |-> "Inc", register |-> [type |-> "Register", id |-> RegA]]
    /\ instructions[7] = [op |-> "Dec", register |-> [type |-> "Register", id |-> RegC]]
    /\ instructions[8] = [op |-> "Jnz", source |-> [type |-> "Register", id |-> RegC],
                                        offset |-> [type |-> "Constant", value |-> -2]]
    /\ instructions[9] = [op |-> "Dec", register |-> [type |-> "Register", id |-> RegD]]
    /\ instructions[10] = [op |-> "Jnz", source |-> [type |-> "Register", id |-> RegD],
                                         offset |-> [type |-> "Constant", value |-> -5]]

\* C11: step_turbo calls the closure first.  When the closure returns
\* Some(r), step_turbo returns r and the machine is exactly what the closure
\* left (no ordinary step runs in that call); when it returns None, the
\* result and the new state are those of one ordinary step().
C11_StepTurbo ==
    [][~panicked =>
          LET p == speed_patch(state)
              r == step(state)
          IN  IF p.panicked THEN TRUE
              ELSE IF is_some(p.ret)
              THEN /\ PatchFires
                   /\ ret' = unwrap(p.ret)
                   /\ ic' = p.ic
                   /\ registers' = p.registers
                   /\ instructions' = p.instructions
                   /\ ~panicked'
              ELSE /\ ret' = r.ret
                   /\ ic' = r.ic
                   /\ registers' = r.registers
                   /\ instructions' = r.instructions
                   /\ panicked' = r.panicked]_vars

\* the closure took over: from a = 12, c = 2, d = 2 at counter 5 the machine
\* is at counter 10 with a = 16 after one call
C11_Witness ==
    /\ SubSeq(program, 1, 5) = << <<cpy, to_token(2), RegB>>, <<cpy, to_token(2), RegD>>,
                                  <<cpy, RegB, RegC>>, <<inc, RegB>>,
                                  <<inc, RegA>> >>
    /\ SubSeq(program, 6, Len(program)) = SlowLoop
    /\ ic = 10
    /\ ret = "true"
    /\ registers[RegA] = 17 /\ registers[RegC] = 0 /\ registers[RegD] = 0

\* the ordinary steps from s up to the first time the counter is target
RECURSIVE slow_run(_, _, _)
slow_run(s, target, fuel) ==
    IF fuel = 0 THEN [reached |-> FALSE, state |-> s]
    ELSE LET r == step(s) IN
         IF r.panicked \/ r.ret = "false" THEN [reached |-> FALSE, state |-> s]
         ELSE IF r.ic = target THEN [reached |-> TRUE, state |-> r]
         ELSE slow_run([ic |-> r.ic, registers |-> r.registers,
                        instructions |-> r.instructions], target, fuel - 1)

\* C12: whenever the closure of day23 fires, the state it produces (a = a +
\* c * d, c = 0, d = 0, counter = 10, the other registers and the
\* instructions unchanged) is the state the ordinary steps reach from the
\* same state when the counter first becomes 10.
C12_TurboKeepsSemantics ==
    [][(PatchFires /\ ~panicked /\ ~panicked') =>
          /\ ic' = 10
          /\ read(registers', RegA)
                = wrapping(read(registers, RegA) + read(registers, RegC) * read(registers, RegD))
          /\ read(registers', RegC) = 0
          /\ read(registers', RegD) = 0
          /\ \A id \in (DOMAIN registers \cup DOMAIN registers') \ {RegA, RegC, RegD} :
                 read(registers', id) = read(registers, id)
          /\ instructions' = instructions
          /\ LET slowly == slow_run(state, 10, MaxSlowSteps) IN
                slowly.reached =>
                   /\ SameValues(slowly.state.registers, registers')
                   /\ slowly.state.instructions = instructions']_vars

---------------------------------------------------------------------------
(* The parser *)

\* the spellings of the integer n: an optional sign and optional leading zero
Spellings(n) ==
    LET digits == digits_of(IF n < 0 THEN -n ELSE n)
        signs  == IF n < 0 THEN {<<"-">>}
                  ELSE IF n = 0 THEN {<<>>, <<"+">>, <<"-">>}
                  ELSE {<<>>, <<"+">>}
    IN  {sg \o z \o digits : sg \in signs, z \in {<<>>, <<"0">>}}

\* what the operand token stands for
Operand(tok) ==
    IF \E n \in I64 : tok \in Spellings(n)
    THEN [type |-> "Constant", value |-> CHOOSE n \in I64 : tok \in Spellings(n)]
    ELSE [type |-> "Register", id |-> tok]

\* the instruction a line of a recognised mnemonic and arity stands for
Parsed(line) ==
    CASE line[1] = cpy /\ Len(line) = 3 ->
            [op |-> "Cpy", source |-> Operand(line[2]), register |-> Operand(line[3])]
      [] line[1] = inc /\ Len(line) = 2 -> [op |-> "Inc", register |-> Operand(line[2])]
      [] line[1] = dec /\ Len(line) = 2 -> [op |-> "Dec", register |-> Operand(line[2])]
      [] line[1] = jnz /\ Len(line) = 3 ->
            [op |-> "Jnz", source |-> Operand(line[2]), offset |-> Operand(line[3])]
      [] line[1] = tgl /\ Len(line) = 2 -> [op |-> "Tgl", offset |-> Operand(line[2])]

Recognised(line) ==
    /\ line # <<>>
    /\ \/ line[1] \in {cpy, jnz} /\ Len(line) = 3
       \/ line[1] \in {inc, dec, tgl} /\ Len(line) = 2

\* C13: a line parses exactly when its tokens are cpy with 2 operands, inc,
\* dec or tgl with 1, or jnz with 2; every other line (the empty one too)
\* fails with ParseInstruction carrying the line.  An operand is a Constant
\* when the token is an i64 literal and a Register of that name otherwise.
C13_Parse ==
    instructions23 # NotParsed =>
        LET line == program[1] IN
        IF Recognised(line)
        THEN instructions23 = [ok |-> TRUE, value |-> <<Parsed(line)>>]
        ELSE instructions23 = [ok |-> FALSE, err |-> "ParseInstruction", data |-> line]

\* cpy -1 <i64::MAX + 1> has parsed: a constant source and, the second
\* token being no i64, a register target
C13_Witness ==
    /\ program = << <<cpy, to_token(-1), to_token(I64_MAX + 1)>> >>
    /\ instructions23.ok
    /\ instructions[1].source = [type |-> "Constant", value |-> -1]
    /\ instructions[1].register = [type |-> "Register", id |-> to_token(I64_MAX + 1)]

---------------------------------------------------------------------------
(* Straight-line instructions *)

\* C14: whenever the counter addresses a Cpy, Inc or Dec (register or
\* constant target), step() sets the counter to counter + 1 and returns
\* true.
C14_NoBranch ==
    [][(~panicked /\ ~Halted /\ unwrap(cur).op \in {"Cpy", "Inc", "Dec"}) =>
          /\ ic' = ic + 1
          /\ ret' = "true"]_vars

---------------------------------------------------------------------------
(* States the machine never leaves *)

\* the counter addresses a jnz whose condition is nonzero and whose offset
\* is zero
SelfLoop ==
    /\ ~Halted
    /\ unwrap(cur).op = "Jnz"
    /\ eval(registers, unwrap(cur).source) # 0
    /\ eval(registers, unwrap(cur).offset) = 0

\* C15: at a jnz with a nonzero condition and offset 0, step() returns true
\* and leaves the counter, every register value and the instructions
\* unchanged; the machine is then at the same jnz, so every later step()
\* does the same and the machine never halts.
C15_ZeroOffsetLoop ==
    [][(SelfLoop /\ ~panicked) =>
          /\ ret' = "true"
          /\ ~panicked'
          /\ ic' = ic
          /\ SameValues(registers', registers)
          /\ instructions' = instructions
          /\ SelfLoop'
          /\ ~Halted']_vars

\* jnz 1 a with a unset has been stepped: the counter is still 0
C15_Witness ==
    /\ program[1] = <<jnz, to_token(1), RegA>>
    /\ SelfLoop
    /\ ic = 0
    /\ ret = "true"
    /\ RegA \in DOMAIN registers

\* C16: once the counter is outside [0, instruction count), every step()
\* returns false and leaves the counter, the registers and the instructions
\* unchanged, so the machine stays halted.
C16_HaltedForGood ==
    [][(Halted /\ ~panicked) =>
          /\ ret' = "false"
          /\ ~panicked'
          /\ UNCHANGED <<ic, registers, instructions>>
          /\ Halted']_vars

\* the machine ran off the end of a program and a further step() returned
\* false
C16_Witness ==
    /\ instructions23.ok
    /\ ic = Len(instructions)
    /\ Halted
    /\ ret = "false"

---------------------------------------------------------------------------
(* A tgl that targets itself *)

\* C17: when the offset of the Tgl at the counter evaluates to 0, step()
\* replaces that Tgl with Inc of the same operand, advances the counter by
\* 1 and returns true; the new Inc is not executed in that step, so no
\* register value changes.
C17_SelfToggle ==
    [][(~panicked /\ ~Halted /\ unwrap(cur).op = "Tgl"
                  /\ eval(registers, unwrap(cur).offset) = 0) =>
          /\ instructions' = [instructions EXCEPT ![ic + 1] =
                                 [op |-> "Inc", register |-> unwrap(cur).offset]]
          /\ ic' = ic + 1
          /\ ret' = "true"
          /\ SameValues(registers', registers)]_vars

\* tgl a with a unset has been stepped: slot 0 holds inc a, a still reads 0
C17_Witness ==
    /\ program[1] = <<tgl, RegA>>
    /\ ic = 1
    /\ ret = "true"
    /\ instructions[1] = [op |-> "Inc", register |-> [type |-> "Register", id |-> RegA]]
    /\ RegA \in DOMAIN registers /\ registers[RegA] = 0

---------------------------------------------------------------------------
(* Toggling twice *)

\* C18: when a Tgl step hits a slot whose previous toggle (with no other
\* toggle of that slot in between) replaced Inc(x), the slot holds Inc(x)
\* again after this step; likewise Dec(x) returns to Dec(x).
C18_ToggleTwice ==
    [][(~panicked /\ ~Halted /\ unwrap(cur).op = "Tgl" /\ InRange(tgl_target)) =>
          LET k == tgl_target + 1 IN
          (is_some(toggled_from[k]) /\ unwrap(toggled_from[k]).op \in {"Inc", "Dec"}) =>
              instructions'[k] = unwrap(toggled_from[k])]_vars

\* tgl 2, tgl 1, inc a: both toggles have hit slot 2, which holds inc a
\* again after having held dec a
C18_Witness ==
    /\ program = << <<tgl, to_token(2)>>, <<tgl, to_token(1)>>, <<inc, RegA>> >>
    /\ ic = 2
    /\ toggled_from[3] = Some([op |-> "Dec", register |-> [type |-> "Register", id |-> RegA]])
    /\ instructions[3] = [op |-> "Inc", register |-> [type |-> "Register", id |-> RegA]]

---------------------------------------------------------------------------
(* Registers nobody has written *)

\* the registers of the map, a, and a name no program here mentions
RegisterNames == DOMAIN registers \cup {RegA, RegB}

\* C19: a register the caller did not seed and no executed cpy, inc or dec
\* had as its target reads as 0, and reading a register (get_value) changes
\* the value of no register.
C19_UnsetReadsZero ==
    /\ \A id \in RegisterNames \ written :
           get_value(registers, [type |-> "Register", id |-> id]).value = 0
    /\ \A id \in RegisterNames :
           LET got == get_value(registers, [type |-> "Register", id |-> id]) IN
           /\ SameValues(got.registers, registers)
           /\ \A other \in RegisterNames :
                  get_value(got.registers, [type |-> "Register", id |-> other]).value
                    = get_value(registers, [type |-> "Register", id |-> other]).value

\* jnz a 1 has read the unseeded a, which no instruction has written: the
\* map now has a, holding 0
C19_Witness ==
    /\ program[1] = <<jnz, RegA, to_token(1)>>
    /\ ret = "true"
    /\ ic = 1
    /\ RegA \in DOMAIN registers
    /\ RegA \notin written
    /\ registers[RegA] = 0

---------------------------------------------------------------------------
(* Arithmetic *)

\* C20: step() never faults on i64 arithmetic: value + 1 of Inc, value - 1
\* of Dec, counter + offset of Jnz and of Tgl, and counter + 1 each yield a
\* defined next state (step() returns, and the counter and every register
\* hold an i64) for every value the registers, the counter and the
\* constants can hold.
C20_ArithmeticDefined ==
    [][(~panicked /\ ~Halted) =>
          /\ ~panicked'
          /\ ret' = "true"
          /\ fits_i64(ic')
          /\ \A id \in DOMAIN registers' : fits_i64(registers'[id])]_vars

---------------------------------------------------------------------------
(* Instruction memory *)

\* the operands of an instruction, in the order of its fields
operands_of(inst) ==
    CASE inst.op = "Cpy" -> <<inst.source, inst.register>>
      [] inst.op = "Jnz" -> <<inst.source, inst.offset>>
      [] inst.op = "Inc" -> <<inst.register>>
      [] inst.op = "Dec" -> <<inst.register>>
      [] inst.op = "Tgl" -> <<inst.offset>>

\* the slots (counted from 1) in which two instruction memories differ
changed_slots(before, after) ==
    {k \in 1..Len(before) : after[k] # before[k]}

\* C21: instruction memory keeps the length it had at construction, every
\* slot keeps the number of operands and the operand values, position by
\* position, of the instruction parsed into it, and a step changes at most
\* one slot, and only when the instruction it executes is a Tgl.
C21_InstructionMemory ==
    /\ [](instructions23.ok =>
             /\ Len(instructions) = Len(instructions23.value)
             /\ \A k \in 1..Len(instructions) :
                    operands_of(instructions[k]) = operands_of(instructions23.value[k]))
    /\ [][/\ Len(instructions') = Len(instructions)
          /\ Cardinality(changed_slots(instructions, instructions')) <= 1
          /\ changed_slots(instructions, instructions') # {} =>
                 (~Halted /\ unwrap(cur).op = "Tgl")]_vars

\* tgl 1 has turned the cpy 2 a of slot 1 into a jnz with the same two
\* operands in the same places
C21_Witness ==
    /\ program[1] = <<tgl, to_token(1)>>
    /\ program[2] = <<cpy, to_token(2), RegA>>
    /\ ic = 1
    /\ instructions[2] = [op |-> "Jnz", source |-> [type |-> "Constant", value |-> 2],
                                        offset |-> [type |-> "Register", id |-> RegA]]

---------------------------------------------------------------------------
(* day22: moves *)

\* the used amounts of the positions in S, added up
RECURSIVE total_used(_, _)
total_used(m, S) ==
    IF S = {} THEN 0
    ELSE LET pos == CHOOSE p \in S : TRUE IN m[pos].used + total_used(m, S \ {pos})

\* two positions next to each other in a row or in a column
Adjacent(p, q) ==
    \/ p[1] = q[1] /\ (p[2] = q[2] + 1 \/ q[2] = p[2] + 1)
    \/ p[2] = q[2] /\ (p[1] = q[1] + 1 \/ q[1] = p[1] + 1)

\* C22: every state get_neighbors returns differs from the current one by
\* one move between two adjacent existing nodes: the source had used > 0
\* and ends with 0, the target ends with the sum of both, which is within
\* its size, every other node is unchanged, and target_pos moves to the
\* target exactly when the source was target_pos; so the total used stays
\* the same and no node exceeds its size.
C22_OneMove ==
    [][current' # current =>
          /\ DOMAIN current'.map = DOMAIN current.map
          /\ \E source \in DOMAIN current.map : \E target \in DOMAIN current.map :
                /\ Adjacent(source, target)
                /\ current.map[source].used > 0
                /\ current'.map[source].used = 0
                /\ current'.map[target].used
                      = current.map[target].used + current.map[source].used
                /\ current'.map[target].used <= node_defs[target].size
                /\ \A pos \in DOMAIN current.map \ {source, target} :
                       current'.map[pos] = current.map[pos]
                /\ current'.target_pos = IF source = current.target_pos THEN target
                                         ELSE current.target_pos
          /\ total_used(current'.map, DOMAIN current'.map)
                = total_used(current.map, DOMAIN current.map)
          /\ \A pos \in DOMAIN current'.map :
                 current'.map[pos].used <= node_defs[pos].size]_vars

=============================================================================
